---- MODULE Spec2Model ----
(***************************************************************************)
(* Model of the Zillow address/URL/ZPID scraper.                           *)
(*                                                                         *)
(* The repository holds two command-line programs:                         *)
(*   "client": URL/ZPID/src/runner.py, which drives ZillowClient           *)
(*             (extractors/zillow_parser.py) through process_records;      *)
(*   "parser": runner.py, which drives ZillowParser.lookup and             *)
(*             normalize_property_record (extractors/helpers_cleaning.py). *)
(*                                                                         *)
(* Text is a sequence of one-character strings, so that strip, lower,      *)
(* startswith, isdigit, replace and the whitespace regexes are computed    *)
(* character by character as the code computes them.                       *)
(***************************************************************************)
EXTENDS Integers, Sequences, FiniteSets, TLC

VARIABLES
    program,      \* which runner is run: "client" or "parser"
    pc,           \* position of main: "start", "open", "loop", "fetch", "exit"
    inputExists,  \* whether the input file exists
    file,         \* the lines of the input file
    settingsBase, \* the base_url setting
    records,      \* the loaded inputs (InputRecords, or values for "parser")
    idx,          \* index of the next input of the loop
    results,      \* the records collected so far
    log,          \* per processed input: the input, the response, the outcome
    exitCode,     \* the exit status once pc = "exit", -1 before
    exitReason,   \* what ended the run, "running" before
    requests,     \* the indexes of the inputs a GET was sent for, in order
    inflight,     \* the indexes of the inputs whose GET has not returned
    summary,      \* the counts of the closing summary, <<>> while not reported
    output,       \* the tokens of the JSON file written, <<>> while not written
    arg,          \* the argument of a function applied on its own
    ret           \* the results of its applications, in call order

vars == <<program, pc, inputExists, file, settingsBase, records, idx,
          results, log, exitCode, exitReason, requests, inflight, summary,
          output, arg, ret>>

(***************************************************************************)
(* Bounds                                                                  *)
(***************************************************************************)
\* inputs of one batch run
MaxLines == 2
\* lines of an input file that is only loaded
MaxFileLines == 4
\* applications of the URL resolver to one record
MaxCalls == 2

(***************************************************************************)
(* Text helpers                                                            *)
(***************************************************************************)
\* Characters Python's str.strip() and the regex class \s treat as whitespace.
Whitespace == {" ", "\t", "\n"}

DigitChars == {"0", "1", "2", "3", "4", "5", "6", "7", "8", "9"}

\* str.lower() on the letters the model's texts use.
LowerChar(c) ==
    CASE c = "H" -> "h"
      [] c = "T" -> "t"
      [] c = "P" -> "p"
      [] c = "S" -> "s"
      [] c = "E" -> "e"
      [] c = "M" -> "m"
      [] OTHER -> c

lower(s) == [i \in 1..Len(s) |-> LowerChar(s[i])]

RECURSIVE lstrip(_)
lstrip(s) ==
    IF s # <<>> /\ Head(s) \in Whitespace THEN lstrip(Tail(s)) ELSE s

RECURSIVE rstrip(_)
rstrip(s) ==
    IF s # <<>> /\ s[Len(s)] \in Whitespace
    THEN rstrip(SubSeq(s, 1, Len(s) - 1))
    ELSE s

\* str.strip()
strip(s) == rstrip(lstrip(s))

\* str.rstrip("/")
RECURSIVE rstripSlash(_)
rstripSlash(s) ==
    IF s # <<>> /\ s[Len(s)] = "/"
    THEN rstripSlash(SubSeq(s, 1, Len(s) - 1))
    ELSE s

\* str.startswith(prefix)
startswith(s, prefix) ==
    /\ Len(s) >= Len(prefix)
    /\ SubSeq(s, 1, Len(prefix)) = prefix

\* str.isdigit(): non-empty and every character a digit.
isdigit(s) == s # <<>> /\ \A i \in 1..Len(s) : s[i] \in DigitChars

\* str.replace(old, new) for single characters.
replace(s, old, new) == [i \in 1..Len(s) |-> IF s[i] = old THEN new ELSE s[i]]

HttpScheme == <<"h", "t", "t", "p", ":", "/", "/">>
HttpsScheme == <<"h", "t", "t", "p", "s", ":", "/", "/">>

(***************************************************************************)
(* Input classification                                                    *)
(***************************************************************************)
\* classify_input on text whose stripped form is non-empty; the empty case
\* raises ValueError and is told apart by classify_raises.
classify_raises(raw) == strip(raw) = <<>>

\* classify_input comparing the scheme without lower().
classify_input_case_sensitive(raw) ==
    LET cleaned == strip(raw)
        kind == IF startswith(cleaned, HttpScheme)
                     \/ startswith(cleaned, HttpsScheme)
                THEN "url"
                ELSE IF isdigit(cleaned) THEN "zpid" ELSE "address"
    IN  [raw |-> raw, kind |-> kind, value |-> cleaned]

classify_input(raw) ==
    LET cleaned == strip(raw)
        kind == IF startswith(lower(cleaned), HttpScheme)
                     \/ startswith(lower(cleaned), HttpsScheme)
                THEN "url"
                ELSE IF isdigit(cleaned) THEN "zpid" ELSE "address"
    IN  [raw |-> raw, kind |-> kind, value |-> cleaned]

(***************************************************************************)
(* Input file loading                                                      *)
(***************************************************************************)
\* load_inputs_from_file skipping blank lines only, not '#' lines.
RECURSIVE load_inputs_keeping_comments(_)
load_inputs_keeping_comments(lines) ==
    IF lines = <<>> THEN <<>>
    ELSE LET raw == strip(Head(lines))
             rest == load_inputs_keeping_comments(Tail(lines))
         IN  IF raw = <<>>
             THEN rest
             ELSE <<classify_input(raw)>> \o rest

\* load_inputs_from_file: the loop over the file's lines.
RECURSIVE load_inputs_from_file(_)
load_inputs_from_file(lines) ==
    IF lines = <<>> THEN <<>>
    ELSE LET raw == strip(Head(lines))
             rest == load_inputs_from_file(Tail(lines))
         IN  IF raw = <<>> \/ startswith(raw, <<"#">>)
             THEN rest
             ELSE IF classify_raises(raw)
                  THEN rest
                  ELSE <<classify_input(raw)>> \o rest

\* read_input_values: the loop over the file's lines.
RECURSIVE read_input_values(_)
read_input_values(lines) ==
    IF lines = <<>> THEN <<>>
    ELSE LET stripped == strip(Head(lines))
             rest == read_input_values(Tail(lines))
         IN  IF stripped = <<>> \/ startswith(stripped, <<"#">>)
             THEN rest
             ELSE <<stripped>> \o rest

(***************************************************************************)
(* URL resolution                                                          *)
(***************************************************************************)
HomedetailsPath == <<"/", "h", "o", "m", "e", "d", "e", "t", "a", "i", "l", "s", "/">>
ZpidSuffix == <<"_", "z", "p", "i", "d", "/">>
HomesPath == <<"/", "h", "o", "m", "e", "s", "/">>
RbSuffix == <<"_", "r", "b", "/">>

\* ZillowClient.__init__: self.base_url = base_url.rstrip("/")
client_base_url(base) == rstripSlash(base)

\* _build_url_for_record without the pass-through of a url record.
build_url_without_pass_through(record, base_url) ==
    IF record.kind = "zpid"
    THEN base_url \o HomedetailsPath \o record.value \o ZpidSuffix
    ELSE base_url \o HomesPath \o replace(record.value, " ", "-") \o RbSuffix

\* ZillowClient._build_url_for_record, base_url being self.base_url.
_build_url_for_record(record, base_url) ==
    IF record.kind = "url" THEN record.value
    ELSE IF record.kind = "zpid"
         THEN base_url \o HomedetailsPath \o record.value \o ZpidSuffix
         ELSE base_url \o HomesPath \o replace(record.value, " ", "-") \o RbSuffix

(***************************************************************************)
(* Decoded JSON values and Python values                                   *)
(*   null/None, integers, text, maps (ordered key/value pairs, as a Python *)
(*   dict keeps them), lists, and the float infinity that json.loads       *)
(*   yields for Infinity or 1e999.                                         *)
(***************************************************************************)
JNull == [t |-> "null"]
JNum(n) == [t |-> "num", n |-> n]
JStr(s) == [t |-> "str", s |-> s]
JInf == [t |-> "inf"]
JMap(kv) == [t |-> "map", kv |-> kv]
JList(items) == [t |-> "list", items |-> items]

\* dict.keys()
keys(m) == {m.kv[i][1] : i \in 1..Len(m.kv)}

\* dict.get(key): the value, None when the key is absent.
get(m, key) ==
    IF key \in keys(m)
    THEN LET i == CHOOSE j \in 1..Len(m.kv) : m.kv[j][1] = key IN m.kv[i][2]
    ELSE JNull

\* Python truthiness, which decides `a or b`.
Truthy(v) ==
    CASE v.t = "null" -> FALSE
      [] v.t = "num" -> v.n # 0
      [] v.t = "str" -> v.s # <<>>
      [] v.t = "inf" -> TRUE
      [] v.t = "map" -> v.kv # <<>>
      [] v.t = "list" -> v.items # <<>>

\* a or b
Or(a, b) == IF Truthy(a) THEN a ELSE b

\* Decimal digits of a natural number.
RECURSIVE NatDigits(_)
NatDigits(n) ==
    IF n < 10 THEN <<CHOOSE c \in DigitChars :
                       c = <<"0", "1", "2", "3", "4", "5", "6", "7", "8", "9">>[n + 1]>>
    ELSE NatDigits(n \div 10) \o NatDigits(n % 10)

\* Value of a non-empty digit text.
DigitValue(c) ==
    CHOOSE d \in 0..9 : <<"0", "1", "2", "3", "4", "5", "6", "7", "8", "9">>[d + 1] = c

RECURSIVE DigitsValue(_)
DigitsValue(s) ==
    IF s = <<>> THEN 0
    ELSE 10 * DigitsValue(SubSeq(s, 1, Len(s) - 1)) + DigitValue(s[Len(s)])

\* str(v) for the values the model passes to it.
py_str(v) ==
    CASE v.t = "str" -> v.s
      [] v.t = "num" -> IF v.n < 0 THEN <<"-">> \o NatDigits(0 - v.n) ELSE NatDigits(v.n)

\* The outcome of a conversion: the number, or the exception raised.
Converted(n) == [ok |-> TRUE, n |-> n, exc |-> "none"]
Raises(exc) == [ok |-> FALSE, n |-> 0, exc |-> exc]

\* int() of text without its surrounding whitespace: an optional sign, then
\* digits; anything else is ValueError.
int_of_signed(negative, body) ==
    IF isdigit(body)
    THEN Converted(IF negative THEN 0 - DigitsValue(body) ELSE DigitsValue(body))
    ELSE Raises("ValueError")

int_of_text(c) ==
    IF c # <<>> /\ Head(c) \in {"-", "+"}
    THEN int_of_signed(Head(c) = "-", Tail(c))
    ELSE int_of_signed(FALSE, c)

\* int(v): the integer, or the exception int() raises.  A map, a list or
\* None is TypeError; the float infinity is OverflowError.
py_int(v) ==
    CASE v.t = "num" -> Converted(v.n)
      [] v.t = "str" -> int_of_text(strip(v.s))
      [] v.t = "inf" -> Raises("OverflowError")
      [] v.t \in {"map", "list", "null"} -> Raises("TypeError")

\* except (TypeError, ValueError): None.  The result is [raised, value];
\* raised tells that the exception was another one and leaves the caller.
none_on_type_or_value_error(r) ==
    IF r.ok THEN [raised |-> FALSE, value |-> JNum(r.n)]
    ELSE IF r.exc \in {"TypeError", "ValueError"}
         THEN [raised |-> FALSE, value |-> JNull]
         ELSE [raised |-> TRUE, value |-> JNull]

\* try: int(v) if v is not None else None / except (TypeError, ValueError)
IntOrNone(v) ==
    IF v.t = "null" THEN [raised |-> FALSE, value |-> JNull]
    ELSE none_on_type_or_value_error(py_int(v))

_to_int_safe(value) == IntOrNone(value)

\* float(v) under the same try/except; float(inf) is inf and does not raise.
\* The modelled values hold no decimal text, so a float is written as its
\* integer value.
_to_float_safe(value) ==
    IF value.t = "inf" THEN [raised |-> FALSE, value |-> JInf]
    ELSE IntOrNone(value)

(***************************************************************************)
(* Fetched pages                                                           *)
(*   A page is what BeautifulSoup gives the extractors: its script blocks  *)
(*   in document order and the landmarks the heuristic extractor reads.    *)
(*   A script block is described by what _extract_relevant_json asks of    *)
(*   its text: whether each marker occurs in it, and its top-level         *)
(*   brace-delimited substrings in text order, each with whether           *)
(*   json.loads accepts it (and then the decoded object).                  *)
(***************************************************************************)
Block(decodes, data) == [decodes |-> decodes, data |-> data]

ScriptOfBlocks(hasZestimate, hasZpid, blocks) ==
    [hasZestimate |-> hasZestimate, hasZpid |-> hasZpid, blocks |-> blocks]

\* A script block with at most one brace-delimited substring.
Script(hasZestimate, hasZpid, braces, decodes, data) ==
    ScriptOfBlocks(hasZestimate, hasZpid,
                   IF braces THEN <<Block(decodes, data)>> ELSE <<>>)

\* json.loads(text[start : end + 1]) with start = text.find("{") and
\* end = text.rfind("}"): the text from the first substring's '{' to the
\* last substring's '}'.  It is one JSON document only when it is a single
\* substring that decodes; text after a first object is "Extra data".
json_loads_candidate(blocks) ==
    IF Len(blocks) = 1 /\ blocks[1].decodes
    THEN [ok |-> TRUE, data |-> blocks[1].data]
    ELSE [ok |-> FALSE, data |-> JNull]

\* _extract_relevant_json giving up at the first candidate that fails to
\* decode.
RECURSIVE extract_json_giving_up(_)
extract_json_giving_up(scripts) ==
    IF scripts = <<>> THEN JNull
    ELSE IF Head(scripts).hasZestimate /\ Head(scripts).hasZpid
         THEN IF /\ Head(scripts).blocks # <<>>
                 /\ json_loads_candidate(Head(scripts).blocks).ok
              THEN json_loads_candidate(Head(scripts).blocks).data
              ELSE JNull
         ELSE extract_json_giving_up(Tail(scripts))

\* ZillowClient._extract_relevant_json: the decoded object of the first
\* script block that mentions both markers and whose text from its first
\* '{' to its last '}' decodes, else None.
RECURSIVE _extract_relevant_json(_)
_extract_relevant_json(scripts) ==
    IF scripts = <<>> THEN JNull
    ELSE IF /\ Head(scripts).hasZestimate /\ Head(scripts).hasZpid
            /\ Head(scripts).blocks # <<>>
            /\ json_loads_candidate(Head(scripts).blocks).ok
         THEN json_loads_candidate(Head(scripts).blocks).data
         ELSE _extract_relevant_json(Tail(scripts))

\* walk searching the children of a map before the map itself.
RECURSIVE walk_children_first(_)
RECURSIVE walk_children_first_each(_)
walk_children_first(obj) ==
    IF obj.t = "map"
    THEN IF walk_children_first_each([i \in 1..Len(obj.kv) |-> obj.kv[i][2]]) # JNull
         THEN walk_children_first_each([i \in 1..Len(obj.kv) |-> obj.kv[i][2]])
         ELSE IF {"zpid", "zestimate"} \subseteq keys(obj) THEN obj ELSE JNull
    ELSE IF obj.t = "list" THEN walk_children_first_each(obj.items)
    ELSE JNull

walk_children_first_each(children) ==
    IF children = <<>> THEN JNull
    ELSE IF walk_children_first(Head(children)) # JNull
         THEN walk_children_first(Head(children))
         ELSE walk_children_first_each(Tail(children))

\* walk inside _parse_from_json_blob: pre-order search for the first map
\* holding both "zpid" and "zestimate"; None when there is none.
RECURSIVE walk(_)
RECURSIVE walk_each(_)
walk(obj) ==
    IF obj.t = "map"
    THEN IF {"zpid", "zestimate"} \subseteq keys(obj)
         THEN obj
         ELSE walk_each([i \in 1..Len(obj.kv) |-> obj.kv[i][2]])
    ELSE IF obj.t = "list" THEN walk_each(obj.items)
    ELSE JNull

\* if found is not None: return found; else the next child
found_or_next(found, children) ==
    IF found # JNull THEN found ELSE walk_each(children)

\* The for loops of walk: the first child whose search finds something.
walk_each(children) ==
    IF children = <<>> THEN JNull
    ELSE found_or_next(walk(Head(children)), Tail(children))

\* str(v or "")
str_or_empty(value) == IF Truthy(value) THEN py_str(value) ELSE <<>>

\* One entry of the priceHistory loop of _parse_from_json_blob, from its
\* date text, event text and converted price: [raised, keep, event].
price_event_of(date, event, price) ==
    [raised |-> price.raised,
     keep |-> date # <<>> \/ event # <<>> \/ price.value # JNull,
     event |-> [date |-> date, event |-> event, price |-> price.value]]

price_event(item) ==
    price_event_of(str_or_empty(Or(get(item, "date"), get(item, "eventDate"))),
                   str_or_empty(Or(get(item, "event"),
                                   get(item, "priceChangeEvent"))),
                   IntOrNone(get(item, "price")))

\* The loop's step: an exception leaves the method, an empty entry is
\* dropped, any other is appended.
history_with(e, rest) ==
    IF e.raised THEN [raised |-> TRUE, events |-> <<>>]
    ELSE [raised |-> rest.raised,
          events |-> IF e.keep THEN <<e.event>> \o rest.events ELSE rest.events]

RECURSIVE price_history(_)
price_history(items) ==
    IF items = <<>> THEN [raised |-> FALSE, events |-> <<>>]
    ELSE IF Head(items).t # "map" THEN price_history(Tail(items))
    ELSE history_with(price_event(Head(items)), price_history(Tail(items)))

\* if isinstance(price_history_raw, list): the loop; else no event
price_history_of(price_history_raw) ==
    IF price_history_raw.t = "list"
    THEN price_history(price_history_raw.items)
    ELSE [raised |-> FALSE, events |-> <<>>]

\* The PropertyData that _parse_from_json_blob returns, from the values it
\* computed: [raised, data]; raised when a conversion raised an exception
\* the method does not catch.
PropertyData(address, zpid, url, zestimate, bedrooms, bathrooms, living_area, lot_size, year_built, property_type, history) ==
    [raised |-> \/ zestimate.raised
                \/ history.raised
                \/ living_area.raised
                \/ lot_size.raised
                \/ year_built.raised,
     data |-> [address |-> address,
               zpid |-> zpid,
               url |-> url,
               zestimate |-> zestimate.value,
               bedrooms |-> bedrooms.value,
               bathrooms |-> bathrooms.value,
               livingArea |-> living_area.value,
               lotSize |-> lot_size.value,
               yearBuilt |-> year_built.value,
               propertyType |-> property_type,
               priceHistory |-> history.events]]

\* _parse_from_json_blob after walk: the fields read from the payload.
fields_of_payload(payload, record, url) ==
    PropertyData(
        Or(Or(Or(get(payload, "address"), get(payload, "streetAddress")),
              get(payload, "formattedAddress")),
           JStr(record.value)),
        str_or_empty(get(payload, "zpid")),
        url,
        IntOrNone(Or(get(payload, "zestimate"), get(payload, "price"))),
        _to_float_safe(get(payload, "bedrooms")),
        _to_float_safe(get(payload, "bathrooms")),
        _to_int_safe(Or(get(payload, "livingArea"),
                        get(payload, "livingAreaValue"))),
        _to_int_safe(Or(get(payload, "lotSize"), get(payload, "lotSizeValue"))),
        _to_int_safe(get(payload, "yearBuilt")),
        Or(get(payload, "homeType"), get(payload, "propertyType")),
        price_history_of(Or(get(payload, "priceHistory"), JList(<<>>))))

\* ZillowClient._parse_from_json_blob: payload = walk(data) or {}
_parse_from_json_blob(data, record, url) ==
    fields_of_payload(Or(walk(data), JMap(<<>>)), record, url)

\* ZillowClient._extract_address_from_html: the og:title content, else the
\* first heading's text, else the window before a postal code, else None.
\* The page carries what each lookup finds (None when it finds nothing).
_extract_address_from_html(page) ==
    IF Truthy(page.og_title) THEN page.og_title
    ELSE IF Truthy(page.h1) THEN page.h1
    ELSE IF page.zip_snippet # JNull THEN page.zip_snippet
    ELSE JNull

\* _parse_from_html recording the input value as the url.
parse_from_html_input_url(page, record, url) ==
    [address |-> Or(_extract_address_from_html(page), JStr(record.value)),
     zpid |-> page.text_zpid,
     url |-> record.value,
     zestimate |-> page.text_zestimate,
     bedrooms |-> page.text_bd,
     bathrooms |-> page.text_ba,
     livingArea |-> page.text_sqft,
     lotSize |-> JNull,
     yearBuilt |-> page.text_year,
     propertyType |-> page.text_type,
     priceHistory |-> <<>>]

\* ZillowClient._parse_from_html; the page carries the outcome of each
\* regular-expression search over its visible text.
_parse_from_html(page, record, url) ==
    [address |-> Or(_extract_address_from_html(page), JStr(record.value)),
     zpid |-> page.text_zpid,
     url |-> url,
     zestimate |-> page.text_zestimate,
     bedrooms |-> page.text_bd,
     bathrooms |-> page.text_ba,
     livingArea |-> page.text_sqft,
     lotSize |-> JNull,
     yearBuilt |-> page.text_year,
     propertyType |-> page.text_type,
     priceHistory |-> <<>>]

\* The outcomes of fetch_property:
\* [ok, fetched, error, status, via, url, data]; fetched tells that the
\* status check let the markup through to the extractors.
NoData == [address |-> JNull, zpid |-> <<>>, url |-> <<>>, zestimate |-> JNull,
           bedrooms |-> JNull, bathrooms |-> JNull, livingArea |-> JNull,
           lotSize |-> JNull, yearBuilt |-> JNull, propertyType |-> JNull,
           priceHistory |-> <<>>]

Failure(error, status, fetched, url) ==
    [ok |-> FALSE, fetched |-> fetched, error |-> error, status |-> status,
     via |-> "none", url |-> url, data |-> NoData]

Success(via, status, url, data) ==
    [ok |-> TRUE, fetched |-> TRUE, error |-> "none", status |-> status,
     via |-> via, url |-> url, data |-> data]

\* fetch_property: return self._parse_from_json_blob(json_blob, record, url)
returned_from_json(parsed, status, url) ==
    IF parsed.raised THEN Failure("OverflowError", status, TRUE, url)
    ELSE Success("json", status, url, parsed.data)

\* fetch_property after _extract_relevant_json: if json_blob: ... else the
\* HTML fallback.
extract_property(json_blob, page, record, status, url) ==
    IF Truthy(json_blob)
    THEN returned_from_json(_parse_from_json_blob(json_blob, record, url),
                            status, url)
    ELSE Success("html", status, url, _parse_from_html(page, record, url))

\* fetch_property after _build_url_for_record, on the response the network
\* gives:
\*   response.kind = "error": the request raised (timeout, connection);
\*   response.kind = "status": a response with response.status and .page.
fetch_url(url, record, response) ==
    IF response.kind = "error" THEN Failure("NetworkError", 0, FALSE, url)
    ELSE IF response.status # 200
    THEN Failure("RuntimeError", response.status, FALSE, url)
    ELSE extract_property(_extract_relevant_json(response.page.scripts),
                          response.page, record, response.status, url)

\* ZillowClient.fetch_property
fetch_property(record, base_url, response) ==
    fetch_url(_build_url_for_record(record, base_url), record, response)

(***************************************************************************)
(* Schema normalisation (extractors/helpers_cleaning.py)                   *)
(***************************************************************************)
\* re.sub(r"\s+", " ", text): every run of whitespace becomes one space.
RECURSIVE collapse_whitespace(_)
collapse_whitespace(s) ==
    IF s = <<>> THEN <<>>
    ELSE IF Head(s) \in Whitespace
         THEN <<" ">> \o collapse_whitespace(lstrip(s))
         ELSE <<Head(s)>> \o collapse_whitespace(Tail(s))

\* clean_text on text (None is given as the empty text by its callers).
clean_text(text) == collapse_whitespace(strip(text))

\* text or None
none_if_empty(text) == IF text = <<>> THEN JNull ELSE JStr(text)

\* clean_text(str(value or "")) or None
text_or_none(value) == none_if_empty(clean_text(str_or_empty(value)))

keep_chars(s, allowed) == SelectSeq(s, LAMBDA c : c \in allowed)

\* parse_int on text stripped of every character but digits and '-':
\* nothing left gives None, as does the ValueError of int().
int_of_digits(digits, r) ==
    IF digits = <<>> \/ ~r.ok THEN [raised |-> FALSE, value |-> JNull]
    ELSE [raised |-> FALSE, value |-> JNum(r.n)]

\* parse_int: [raised, value].  An int is returned as it is; text loses
\* every character other than a digit or '-' and is given to int(), whose
\* ValueError gives None; round() of an infinite float raises
\* OverflowError, which parse_int does not catch.
parse_int(value) ==
    CASE value.t = "null" -> [raised |-> FALSE, value |-> JNull]
      [] value.t = "num" -> [raised |-> FALSE, value |-> value]
      [] value.t = "inf" -> [raised |-> TRUE, value |-> JNull]
      [] value.t = "str" ->
           int_of_digits(keep_chars(value.s, DigitChars \cup {"-"}),
                         int_of_text(keep_chars(value.s, DigitChars \cup {"-"})))

\* Whether float() accepts text made of digits, '.' and '-' only: an
\* optional leading '-', at most one '.', at least one digit.
is_unsigned_float_text(body) ==
    /\ Len(keep_chars(body, {"."})) <= 1
    /\ keep_chars(body, DigitChars) # <<>>
    /\ keep_chars(body, {"-"}) = <<>>

is_float_text(s) ==
    IF s # <<>> /\ Head(s) = "-" THEN is_unsigned_float_text(Tail(s))
    ELSE is_unsigned_float_text(s)

\* parse_float on text stripped of every character but digits, '.' and '-'.
\* Text without a '.' is read as int() reads it; text holding a '.' is kept
\* as a decimal value [t |-> "dec", s |-> text].
float_of_cleaned(cleaned) ==
    IF cleaned = <<>> \/ ~is_float_text(cleaned)
    THEN [raised |-> FALSE, value |-> JNull]
    ELSE IF keep_chars(cleaned, {"."}) = <<>>
         THEN [raised |-> FALSE, value |-> JNum(int_of_text(cleaned).n)]
         ELSE [raised |-> FALSE, value |-> [t |-> "dec", s |-> cleaned]]

\* parse_float: [raised, value]; float() of an int or of infinity never
\* raises.
parse_float(value) ==
    CASE value.t = "null" -> [raised |-> FALSE, value |-> JNull]
      [] value.t = "num" -> [raised |-> FALSE, value |-> value]
      [] value.t = "inf" -> [raised |-> FALSE, value |-> JInf]
      [] value.t = "str" ->
           float_of_cleaned(keep_chars(value.s, DigitChars \cup {".", "-"}))

\* if not normalized.get("url") and fallback_url: the cleaned fallback
url_or_fallback(url, fallback_url) ==
    IF ~Truthy(url) /\ fallback_url # <<>>
    THEN JStr(clean_text(fallback_url))
    ELSE url

\* The map normalize_property_record returns, from the coerced fields:
\* [raised, record].
NormalizedRecord(address, zpid, url, zestimate, rentZestimate, bedrooms, bathrooms, livingArea, lotSize, homeType, yearBuilt, price, status, sourceInput) ==
    [raised |-> \/ livingArea.raised
                \/ lotSize.raised
                \/ yearBuilt.raised
                \/ price.raised,
     record |-> [address |-> address,
                 zpid |-> zpid,
                 url |-> url,
                 zestimate |-> zestimate.value,
                 rentZestimate |-> rentZestimate.value,
                 bedrooms |-> bedrooms.value,
                 bathrooms |-> bathrooms.value,
                 livingArea |-> livingArea.value,
                 lotSize |-> lotSize.value,
                 homeType |-> homeType,
                 yearBuilt |-> yearBuilt.value,
                 price |-> price.value,
                 status |-> status,
                 sourceInput |-> sourceInput]]

\* normalize_property_record
normalize_property_record(raw, source, fallback_url) ==
    NormalizedRecord(
        text_or_none(get(raw, "address")),
        text_or_none(get(raw, "zpid")),
        url_or_fallback(text_or_none(get(raw, "url")), fallback_url),
        parse_float(get(raw, "zestimate")),
        parse_float(get(raw, "rentZestimate")),
        parse_float(get(raw, "bedrooms")),
        parse_float(get(raw, "bathrooms")),
        parse_int(get(raw, "livingArea")),
        parse_int(get(raw, "lotSize")),
        text_or_none(get(raw, "homeType")),
        parse_int(get(raw, "yearBuilt")),
        parse_int(get(raw, "price")),
        text_or_none(get(raw, "status")),
        clean_text(source))

\* PriceEvent.to_dict
price_event_to_dict(event) ==
    JMap(<<<<"date", JStr(event.date)>>,
           <<"event", JStr(event.event)>>,
           <<"price", event.price>>>>)

\* PropertyData.to_dict: the record as a map.
to_dict(data) ==
    JMap(<<
      <<"address", data.address>>,
      <<"zpid", JStr(data.zpid)>>,
      <<"url", JStr(data.url)>>,
      <<"zestimate", data.zestimate>>,
      <<"bedrooms", data.bedrooms>>,
      <<"bathrooms", data.bathrooms>>,
      <<"livingArea", data.livingArea>>,
      <<"lotSize", data.lotSize>>,
      <<"yearBuilt", data.yearBuilt>>,
      <<"propertyType", data.propertyType>>,
      <<"priceHistory",
        JList([i \in 1..Len(data.priceHistory) |->
                 price_event_to_dict(data.priceHistory[i])])>>
    >>)

\* The outcome of lookup with the record as a map.
looked_up(fetched) ==
    [ok |-> fetched.ok, fetched |-> fetched.fetched, error |-> fetched.error,
     status |-> fetched.status, via |-> fetched.via, url |-> fetched.url,
     raw_record |-> to_dict(fetched.data)]

\* ZillowParser.lookup: classify the raw value, resolve its URL, fetch the
\* page and extract the property record, returned as a map; it raises when
\* the fetch or the extraction fails.
lookup(raw_value, base_url, response) ==
    looked_up(fetch_property(classify_input(raw_value),
                             client_base_url(base_url), response))

(***************************************************************************)
(* JSON export (outputs/exporters.py)                                      *)
(*   The file written is kept as its sequence of tokens: the brackets and  *)
(*   braces, the quoted texts (a key is the text before a member's value)  *)
(*   and the literals, each literal as the text json.dump writes for it.   *)
(***************************************************************************)
Punct(k) == [k |-> k, s |-> <<>>]
Quoted(text) == [k |-> "str", s |-> text]
Literal(text) == [k |-> "lit", s |-> text]

NullLiteral == <<"n", "u", "l", "l">>
InfinityLiteral == <<"I", "n", "f", "i", "n", "i", "t", "y">>

\* json.dump of one value: None is null, an int its decimal digits, the
\* infinite float Infinity, a float its decimal text, a str quoted, a list
\* and a dict their elements in stored order.
RECURSIVE json_dump(_)
RECURSIVE json_dump_items(_)
RECURSIVE json_dump_members(_)
json_dump(v) ==
    CASE v.t = "null" -> <<Literal(NullLiteral)>>
      [] v.t = "num" -> <<Literal(py_str(v))>>
      [] v.t = "inf" -> <<Literal(InfinityLiteral)>>
      [] v.t = "dec" -> <<Literal(v.s)>>
      [] v.t = "str" -> <<Quoted(v.s)>>
      [] v.t = "list" -> <<Punct("[")>> \o json_dump_items(v.items) \o <<Punct("]")>>
      [] v.t = "map" -> <<Punct("{")>> \o json_dump_members(v.kv) \o <<Punct("}")>>

json_dump_items(items) ==
    IF items = <<>> THEN <<>>
    ELSE json_dump(Head(items)) \o json_dump_items(Tail(items))

json_dump_members(kv) ==
    IF kv = <<>> THEN <<>>
    ELSE <<Quoted(Head(kv)[1])>> \o json_dump(Head(kv)[2])
         \o json_dump_members(Tail(kv))

\* export_to_json_file: json.dump(list(records), f, indent=4)
export_to_json_file(maps) == json_dump(JList(maps))

\* properties_to_serializable: [prop.to_dict() for prop in properties]
properties_to_serializable(properties) ==
    [i \in 1..Len(properties) |-> to_dict(properties[i])]

\* The dict normalize_property_record built, with its keys in the order of
\* their assignment.
normalized_dict(n) ==
    JMap(<<<<"address", n.address>>, <<"zpid", n.zpid>>, <<"url", n.url>>,
           <<"zestimate", n.zestimate>>, <<"rentZestimate", n.rentZestimate>>,
           <<"bedrooms", n.bedrooms>>, <<"bathrooms", n.bathrooms>>,
           <<"livingArea", n.livingArea>>, <<"lotSize", n.lotSize>>,
           <<"homeType", n.homeType>>, <<"yearBuilt", n.yearBuilt>>,
           <<"price", n.price>>, <<"status", n.status>>,
           <<"sourceInput", JStr(n.sourceInput)>>>>)

\* export_records with the format json: the JSON array of the normalized
\* records.
export_records(normalized) ==
    json_dump(JList([i \in 1..Len(normalized) |-> normalized_dict(normalized[i])]))

(***************************************************************************)
(* Inputs of a run                                                         *)
(***************************************************************************)
\* Lines of an input file, each with its line terminator.
LineAddress == <<"1", "2", " ", "E", "x", " ", "S", "t", "\n">>
LineComment == <<"#", " ", "c", "\n">>
LineBlank == <<"\n">>
LineUrl == <<"h", "t", "t", "p", "s", ":", "/", "/", "e", "/", "9", "\n">>
LineZpid == <<" ", "9", "9", "\n">>
LineTabAddress == <<"1", "\t", "M", " ", "S", "t", "\n">>
LineIndentedComment == <<" ", "#", "c", "\n">>
LineUrlSpaces == <<"h", "t", "t", "p", ":", "/", "/", "e", "/", "a", " ", " ", "b", "\n">>

\* lines of the files that are only loaded
FileLines == {LineAddress, LineComment, LineBlank, LineUrl, LineZpid,
              LineTabAddress, LineIndentedComment}

\* lines of the files of a batch run
RunLines == {LineAddress, LineComment, LineZpid, LineUrlSpaces}

RECURSIVE SeqsUpTo(_, _)
SeqsUpTo(S, n) ==
    IF n = 0 THEN {<<>>}
    ELSE LET shorter == SeqsUpTo(S, n - 1)
         IN  shorter \cup {Append(q, x) : q \in shorter, x \in S}

Files == SeqsUpTo(RunLines, MaxLines)
LoadFiles == SeqsUpTo(FileLines, MaxFileLines)

\* base_url settings: the default of DEFAULT_SETTINGS (shortened to one
\* host label) and the same with a trailing slash.
DefaultBase == <<"h", "t", "t", "p", "s", ":", "/", "/", "z", ".", "c", "o", "m">>
Bases == {DefaultBase, DefaultBase \o <<"/">>}

\* Decoded script objects.
Payload == JMap(<<<<"zpid", JNum(7)>>, <<"zestimate", JNum(5)>>,
                  <<"address", JStr(<<"5", " ", "E", "l", "m">>)>>>>)
\* the payload at depth 3 inside a list
DataNested == JMap(<<<<"props", JList(<<JMap(<<<<"id", JNum(1)>>>>), Payload>>)>>>>)
\* both keys occur, but in no single map
DataNoPayload == JMap(<<<<"a", JMap(<<<<"zpid", JNum(7)>>>>)>>,
                        <<"b", JMap(<<<<"zestimate", JNum(5)>>>>)>>>>)
\* a payload whose estimate is the JSON literal Infinity
DataInfinite == JMap(<<<<"zpid", JNum(7)>>, <<"zestimate", JInf>>>>)

NoLandmarks == [og_title |-> JNull, h1 |-> JNull, zip_snippet |-> JNull,
                text_zpid |-> <<>>, text_zestimate |-> JNull, text_bd |-> JNull,
                text_ba |-> JNull, text_sqft |-> JNull, text_year |-> JNull,
                text_type |-> JNull]

PageOf(scripts, landmarks) ==
    [scripts |-> scripts] @@ landmarks

ScriptOther == Script(FALSE, FALSE, TRUE, TRUE, JMap(<<<<"k", JNum(1)>>>>))
ScriptBad == Script(TRUE, TRUE, TRUE, FALSE, JNull)
ScriptPayload == Script(TRUE, TRUE, TRUE, TRUE, DataNested)
ScriptNoPayload == Script(TRUE, TRUE, TRUE, TRUE, DataNoPayload)
ScriptInfinite == Script(TRUE, TRUE, TRUE, TRUE, DataInfinite)
\* the markers stand outside the braces, which hold an empty object
ScriptEmpty == Script(TRUE, TRUE, TRUE, TRUE, JMap(<<>>))

\* no script block with the markers: a heading and labelled text only
PageText == PageOf(<<ScriptOther>>, [NoLandmarks EXCEPT !.h1 = JStr(<<"9", " ", "O", "a", "k">>),
                                            !.text_bd = JNum(3),
                                            !.text_sqft = JNum(1800)])
\* the only candidate block does not decode
PageBadJson == PageOf(<<ScriptBad>>, NoLandmarks)
\* the first candidate does not decode, the second holds the payload
PageSecondDecodes == PageOf(<<ScriptOther, ScriptBad, ScriptPayload>>, NoLandmarks)
\* the candidate decodes, but holds no map with both keys
PageNoPayload == PageOf(<<ScriptNoPayload>>, NoLandmarks)
\* the payload's estimate overflows int()
PageInfinite == PageOf(<<ScriptInfinite>>, NoLandmarks)

\* the first candidate decodes to an empty object, the second holds the payload
PageEmptyObject == PageOf(<<ScriptEmpty, ScriptPayload>>, NoLandmarks)

Pages == {PageText, PageBadJson, PageSecondDecodes,
          PageNoPayload, PageInfinite, PageEmptyObject}

\* Response statuses after redirects are followed.
Statuses == {200, 204, 404}

\* What the network gives one request: an error (timeout, connection
\* failure) or a response with a status and a page.
Responses ==
    {[kind |-> "error", status |-> 0, page |-> PageText]}
    \cup {[kind |-> "status", status |-> st, page |-> PageText] :
            st \in Statuses \ {200}}
    \cup {[kind |-> "status", status |-> 200, page |-> pg] : pg \in Pages}

(***************************************************************************)
(* The runs                                                                *)
(***************************************************************************)
Init ==
    /\ program \in {"client", "parser"}
    /\ pc = "start"
    /\ inputExists \in BOOLEAN
    /\ file \in (IF inputExists THEN Files ELSE {<<>>})
    /\ settingsBase = DefaultBase
    /\ records = <<>>
    /\ idx = 1
    /\ results = <<>>
    /\ log = <<>>
    /\ exitCode = -1
    /\ exitReason = "running"
    /\ requests = <<>>
    /\ inflight = {}
    /\ summary = <<>>
    /\ output = <<>>
    /\ arg = <<>>
    /\ ret = <<>>

Exit(code, reason) ==
    /\ pc' = "exit"
    /\ exitCode' = code
    /\ exitReason' = reason

\* URL/ZPID/src/runner.py main, up to the call of process_records: a missing
\* input file and an input file without a valid input end the run with 1.
ClientLoad ==
    /\ program = "client"
    /\ pc = "start"
    /\ IF ~inputExists
       THEN Exit(1, "input file missing") /\ UNCHANGED records
       ELSE /\ records' = load_inputs_from_file(file)
            /\ IF records' = <<>>
               THEN Exit(1, "no valid inputs")
               ELSE pc' = "loop" /\ UNCHANGED <<exitCode, exitReason>>
    /\ UNCHANGED <<program, inputExists, file, settingsBase, idx, results, log,
                   requests, inflight, summary, output, arg, ret>>

\* fetch_property up to self._client.get(url), in the loop of either runner:
\* the GET for the next input is sent and the loop waits for its response.
SendRequest ==
    /\ pc = "loop"
    /\ idx <= Len(records)
    /\ requests' = Append(requests, idx)
    /\ inflight' = inflight \cup {idx}
    /\ pc' = "fetch"
    /\ UNCHANGED <<program, inputExists, file, settingsBase, records, idx,
                   results, log, exitCode, exitReason, summary, output, arg, ret>>

\* The entry the model keeps of one processed input.
LogEntry(input, kind, value, response, outcome, ok, error, via, produced) ==
    [input |-> input, kind |-> kind, value |-> value, response |-> response,
     ok |-> ok, fetched |-> outcome.fetched, error |-> error,
     status |-> outcome.status, via |-> via, url |-> outcome.url,
     produced |-> produced]

\* The body of the loop of process_records whose except clause leaves the
\* loop.
collect_or_abort(record, response, fetched) ==
    /\ results' = IF fetched.ok THEN Append(results, fetched.data) ELSE results
    /\ log' = Append(log, LogEntry(record.raw, record.kind, record.value,
                                   response, fetched, fetched.ok, fetched.error,
                                   fetched.via, fetched.data))
    /\ idx' = IF fetched.ok THEN idx + 1 ELSE Len(records) + 1

ProcessRecordAborting ==
    /\ program = "client"
    /\ pc = "fetch"
    /\ idx \in inflight
    /\ \E response \in Responses :
         collect_or_abort(records[idx], response,
                          fetch_property(records[idx],
                                         client_base_url(settingsBase), response))
    /\ inflight' = inflight \ {idx}
    /\ pc' = "loop"
    /\ UNCHANGED <<program, inputExists, file, settingsBase, records, exitCode,
                   exitReason, requests, summary, output, arg, ret>>

\* The body of the loop of process_records: results.append(property_data),
\* or the except clause, which only logs.
collect_property(record, response, fetched) ==
    /\ results' = IF fetched.ok THEN Append(results, fetched.data) ELSE results
    /\ log' = Append(log, LogEntry(record.raw, record.kind, record.value,
                                   response, fetched, fetched.ok, fetched.error,
                                   fetched.via, fetched.data))

\* process_records whose except clause leaves the first input to the next
\* iteration, which fetches it again, after a network error.
ProcessRecordRetrying ==
    /\ program = "client"
    /\ pc = "fetch"
    /\ idx \in inflight
    /\ \E response \in Responses :
         /\ collect_property(records[idx], response,
                             fetch_property(records[idx],
                                            client_base_url(settingsBase), response))
         /\ idx' = IF response.kind = "error" /\ requests = <<idx>>
                   THEN idx ELSE idx + 1
    /\ inflight' = inflight \ {idx}
    /\ pc' = "loop"
    /\ UNCHANGED <<program, inputExists, file, settingsBase, records, exitCode,
                   exitReason, requests, summary, output, arg, ret>>

\* process_records: one iteration of the loop from the response of the GET
\* on, the try and its except.
ProcessRecord ==
    /\ program = "client"
    /\ pc = "fetch"
    /\ idx \in inflight
    /\ \E response \in Responses :
         collect_property(records[idx], response,
                          fetch_property(records[idx],
                                         client_base_url(settingsBase), response))
    /\ idx' = idx + 1
    /\ inflight' = inflight \ {idx}
    /\ pc' = "loop"
    /\ UNCHANGED <<program, inputExists, file, settingsBase, records, exitCode,
                   exitReason, requests, summary, output, arg, ret>>

\* URL/ZPID/src/runner.py main after process_records, with the format json:
\* the export, which an unwritable output path makes raise out of main, then
\* the closing log line, which gives the number of collected properties.
ClientExport ==
    /\ program = "client"
    /\ pc = "loop"
    /\ idx > Len(records)
    /\ \E writable \in BOOLEAN :
         IF writable
         THEN /\ Exit(0, "done")
              /\ output' = export_to_json_file(properties_to_serializable(results))
              /\ summary' = <<Len(results)>>
         ELSE Exit(1, "export failed") /\ UNCHANGED <<summary, output>>
    /\ UNCHANGED <<program, inputExists, file, settingsBase, records, idx,
                   results, log, requests, inflight, arg, ret>>

\* runner.py main, up to the with statement: a missing input file ends the
\* run with 1, an input file without values ends it with 0.
ParserRead ==
    /\ program = "parser"
    /\ pc = "start"
    /\ IF ~inputExists
       THEN Exit(1, "input file missing") /\ UNCHANGED records
       ELSE /\ records' = read_input_values(file)
            /\ IF records' = <<>>
               THEN Exit(0, "no valid inputs")
               ELSE pc' = "open" /\ UNCHANGED <<exitCode, exitReason>>
    /\ UNCHANGED <<program, inputExists, file, settingsBase, idx, results, log,
                   requests, inflight, summary, output, arg, ret>>

\* runner.py main: entering the with statement; an exception of the parser's
\* construction is the "Fatal error during scraping" exit.
ParserOpen ==
    /\ program = "parser"
    /\ pc = "open"
    /\ \E opened \in BOOLEAN :
         IF opened THEN pc' = "loop" /\ UNCHANGED <<exitCode, exitReason>>
         ELSE Exit(1, "fatal error during scraping")
    /\ UNCHANGED <<program, inputExists, file, settingsBase, records, idx,
                   results, log, requests, inflight, summary, output, arg, ret>>

\* The body of the loop of runner.py main after the lookup and the
\* normalisation: records.append(normalized), or the except clause, which
\* only logs.
collect_normalized(raw_value, response, found, ok, normalized) ==
    /\ results' = IF ok THEN Append(results, normalized.record) ELSE results
    /\ log' = Append(log, LogEntry(raw_value, classify_input(raw_value).kind,
                                   raw_value, response, found, ok,
                                   IF found.ok /\ normalized.raised
                                   THEN "OverflowError" ELSE found.error,
                                   IF ok THEN found.via ELSE "none",
                                   IF ok THEN normalized.record ELSE NoData))

\* The body of the loop after the lookup: the normalisation of its record.
normalize_found(raw_value, response, found, normalized) ==
    collect_normalized(raw_value, response, found,
                       found.ok /\ ~normalized.raised, normalized)

lookup_and_normalize(raw_value, response, found) ==
    normalize_found(raw_value, response, found,
                    normalize_property_record(found.raw_record, raw_value,
                                              settingsBase))

\* runner.py main: one iteration of the loop over the values from the
\* response of the GET on, the try and its except.
LookupValue ==
    /\ program = "parser"
    /\ pc = "fetch"
    /\ idx \in inflight
    /\ \E response \in Responses :
         lookup_and_normalize(records[idx], response,
                              lookup(records[idx], settingsBase, response))
    /\ idx' = idx + 1
    /\ inflight' = inflight \ {idx}
    /\ pc' = "loop"
    /\ UNCHANGED <<program, inputExists, file, settingsBase, records, exitCode,
                   exitReason, requests, summary, output, arg, ret>>

\* runner.py main after the loop, with the format json: nothing resolved
\* ends the run with 0; otherwise the export, whose failure ends the run
\* with 1, then the printed summary of the processed and the resolved counts.
ParserFinish ==
    /\ program = "parser"
    /\ pc = "loop"
    /\ idx > Len(records)
    /\ IF results = <<>>
       THEN Exit(0, "nothing resolved") /\ UNCHANGED <<summary, output>>
       ELSE \E exported \in BOOLEAN :
              IF exported
              THEN /\ Exit(0, "done")
                   /\ output' = export_records(results)
                   /\ summary' = <<Len(log), Len(results)>>
              ELSE Exit(1, "export failed") /\ UNCHANGED <<summary, output>>
    /\ UNCHANGED <<program, inputExists, file, settingsBase, records, idx,
                   results, log, requests, inflight, arg, ret>>

Next ==
    \/ ClientLoad
    \/ SendRequest
    \/ ProcessRecord
    \/ ClientExport
    \/ ParserRead
    \/ ParserOpen
    \/ LookupValue
    \/ ParserFinish

Spec == Init /\ [][Next]_vars

(***************************************************************************)
(* Loading an input file on its own                                        *)
(***************************************************************************)
InitLoad ==
    /\ program \in {"client", "parser"}
    /\ pc = "start"
    /\ inputExists = TRUE
    /\ file \in LoadFiles
    /\ settingsBase = DefaultBase
    /\ records = <<>>
    /\ idx = 1
    /\ results = <<>>
    /\ log = <<>>
    /\ exitCode = -1
    /\ exitReason = "running"
    /\ requests = <<>>
    /\ inflight = {}
    /\ summary = <<>>
    /\ output = <<>>
    /\ arg = <<>>
    /\ ret = <<>>

NextLoad ==
    \/ ClientLoad
    \/ ParserRead

SpecLoad == InitLoad /\ [][NextLoad]_vars

(***************************************************************************)
(* Functions applied on their own                                          *)
(***************************************************************************)
InitPure(args) ==
    /\ program = "client"
    /\ pc = "call"
    /\ inputExists = FALSE
    /\ file = <<>>
    /\ settingsBase = DefaultBase
    /\ records = <<>>
    /\ idx = 1
    /\ results = <<>>
    /\ log = <<>>
    /\ exitCode = -1
    /\ exitReason = "running"
    /\ requests = <<>>
    /\ inflight = {}
    /\ summary = <<>>
    /\ output = <<>>
    /\ arg \in args
    /\ ret = <<>>

Return(value) ==
    /\ ret' = Append(ret, value)
    /\ UNCHANGED <<program, pc, inputExists, file, settingsBase, records, idx,
                   results, log, exitCode, exitReason, requests, inflight,
                   summary, output, arg>>

\* Raw texts: optional whitespace around a core.
Leading == {<<>>, <<" ">>, <<"\t", " ">>}
Trailing == {<<>>, <<" ">>, <<"\n">>}
Cores == {<<"h", "t", "t", "p", "s", ":", "/", "/", "e", "/", "9">>,
          <<"H", "T", "T", "P", ":", "/", "/", "E">>,
          <<"H", "t", "t", "p", "s", ":", "/", "/", "e">>,
          <<"h", "t", "t", "p", ":", "/", "/", "e", "/", "a", " ", " ", "b">>,
          <<"h", "t", "t", "p", ":", "/", "e">>,
          <<"h", "t", "t">>,
          <<"9", "9">>,
          <<"0">>,
          <<"9", "a">>,
          <<"1", "2", " ", "E", "x", " ", "S", "t">>,
          <<"1", "\t", "M", " ", "S", "t">>,
          <<"#", "c">>,
          <<"-", "5">>,
          <<>>}
RawTexts == {l \o c \o t : l \in Leading, c \in Cores, t \in Trailing}

\* classify_input applied to a raw text: the record, or the ValueError.
Classify ==
    /\ pc = "call"
    /\ ret = <<>>
    /\ Return(IF classify_raises(arg)
              THEN [raised |-> TRUE, record |-> [raw |-> arg, kind |-> "none",
                                                 value |-> <<>>]]
              ELSE [raised |-> FALSE, record |-> classify_input(arg)])

SpecClassify == InitPure(RawTexts) /\ [][Classify]_vars

\* Classified records and base_url settings for the URL resolver.
InputRecords == {classify_input(raw) : raw \in {r \in RawTexts : ~classify_raises(r)}}
ResolveArgs == {[record |-> r, base |-> b] : r \in InputRecords, b \in Bases}

\* _build_url_for_record applied to a record by a client built with a
\* base_url setting; the same client resolves the record again.
ResolveUrl ==
    /\ pc = "call"
    /\ Len(ret) < MaxCalls
    /\ Return(_build_url_for_record(arg.record, client_base_url(arg.base)))

SpecResolve == InitPure(ResolveArgs) /\ [][ResolveUrl]_vars

\* Property payloads: each key absent or holding one of a few values.
Absent == [t |-> "absent"]
Opt(key, v) == IF v = Absent THEN <<>> ELSE <<<<key, v>>>>

Payloads ==
    {JMap(<<<<"zpid", JNum(7)>>, <<"zestimate", ze>>>>
          \o Opt("price", pr) \o Opt("bedrooms", bd)
          \o Opt("livingArea", la) \o Opt("livingAreaValue", lav)
          \o Opt("lotSize", ls) \o Opt("lotSizeValue", lsv)
          \o Opt("address", ad) \o Opt("streetAddress", sa)) :
       ze \in {JNull, JNum(0), JNum(5), JStr(<<"x">>), JInf},
       pr \in {Absent, JNum(0), JNum(8)},
       bd \in {Absent, JNum(0), JNum(2)},
       la \in {Absent, JNull, JNum(0), JNum(9), JInf},
       lav \in {Absent, JNum(3)},
       ls \in {Absent, JNum(0)},
       lsv \in {Absent, JNum(4)},
       ad \in {Absent, JStr(<<>>), JStr(<<"5", " ", "E", "l", "m">>)},
       sa \in {Absent, JStr(<<"9", " ", "O", "a", "k">>)}}

ExtractRecord == classify_input(<<"9", "9">>)
ExtractUrl == _build_url_for_record(ExtractRecord, DefaultBase)

\* _parse_from_json_blob applied to a decoded object that is a payload.
ParseJsonBlob ==
    /\ pc = "call"
    /\ ret = <<>>
    /\ Return(_parse_from_json_blob(arg, ExtractRecord, ExtractUrl))

SpecExtract == InitPure(Payloads) /\ [][ParseJsonBlob]_vars

\* Raw maps given to the normaliser: each field absent or holding one of a
\* few values (grouped digits, text without a digit, a misplaced minus,
\* decimal text, a number, the float infinity).
RawMaps ==
    {JMap(Opt("livingArea", la) \o Opt("lotSize", ls) \o Opt("yearBuilt", yb)
          \o Opt("price", pr) \o Opt("bedrooms", bd) \o Opt("zestimate", ze)
          \o Opt("address", ad)) :
       la \in {Absent, JNull, JStr(<<"1", ",", "2", "3", "4">>),
               JStr(<<"a", "b", "c">>), JNum(5), JInf},
       ls \in {Absent, JStr(<<"-", "7">>), JStr(<<"a", "b", "c">>)},
       yb \in {Absent, JStr(<<"1", "-", "2">>), JNum(1990)},
       pr \in {Absent, JStr(<<"$", "9">>), JInf},
       bd \in {Absent, JStr(<<"2", ".", "5">>), JStr(<<"a", "b", "c">>), JNum(2)},
       ze \in {Absent, JStr(<<"1", ".", "2", ".", "3">>), JInf},
       ad \in {Absent, JStr(<<" ", "5", " ", " ", "E", "l", "m">>)}}

NormalizeSource == <<"9", "9">>

\* normalize_property_record applied to a raw map.
Normalize ==
    /\ pc = "call"
    /\ ret = <<>>
    /\ Return(normalize_property_record(arg, NormalizeSource, DefaultBase))

SpecNormalize == InitPure(RawMaps) /\ [][Normalize]_vars

\* Decoded objects given to the payload locator: scalars, maps with one or
\* both of the keys, a payload inside a payload, and lists and maps of them
\* down to depth 3.
PayloadInner == JMap(<<<<"zpid", JNum(7)>>, <<"zestimate", JNum(5)>>>>)
PayloadOuter == JMap(<<<<"zpid", JNum(8)>>, <<"inner", PayloadInner>>,
                       <<"zestimate", JNull>>>>)
TreeLeaves == {JNum(1), JMap(<<<<"zpid", JNum(7)>>>>), JList(<<>>),
               PayloadInner, PayloadOuter}
TreePairs ==
    {JList(<<a, b>>) : a \in TreeLeaves, b \in TreeLeaves}
    \cup {JMap(<<<<"a", a>>, <<"b", b>>>>) : a \in TreeLeaves, b \in TreeLeaves}
Trees ==
    TreeLeaves \cup TreePairs
    \cup {JMap(<<<<"props", JList(<<JMap(<<<<"id", JNum(1)>>>>), p>>)>>>>) :
            p \in TreePairs}
    \cup {DataNested, DataNoPayload}

\* walk applied to a decoded object.
Walk ==
    /\ pc = "call"
    /\ ret = <<>>
    /\ Return(walk(arg))

SpecWalk == InitPure(Trees) /\ [][Walk]_vars

\* Script blocks given to structured-data extraction: without the markers,
\* with one marker, with both and no brace, with both and a substring that
\* does not decode, with both and one that does, and with both and two
\* objects of which the first decodes.
ScriptOneMarker == Script(TRUE, FALSE, TRUE, TRUE, Payload)
ScriptNoBraces == Script(TRUE, TRUE, FALSE, FALSE, JNull)
ScriptTwoObjects ==
    ScriptOfBlocks(TRUE, TRUE, <<Block(TRUE, PayloadInner),
                                 Block(TRUE, JMap(<<>>))>>)
ScriptKinds == {ScriptOther, ScriptOneMarker, ScriptNoBraces, ScriptBad,
                ScriptPayload, ScriptNoPayload, ScriptTwoObjects}

MaxScripts == 3
ScriptLists == SeqsUpTo(ScriptKinds, MaxScripts)

\* _extract_relevant_json applied to the script blocks of a page.
ExtractRelevantJson ==
    /\ pc = "call"
    /\ ret = <<>>
    /\ Return(_extract_relevant_json(arg))

SpecScripts == InitPure(ScriptLists) /\ [][ExtractRelevantJson]_vars

(***************************************************************************)
(* Properties                                                              *)
(***************************************************************************)
\* The log entries of the inputs whose pipeline succeeded, in input order.
Succeeded == SelectSeq(log, LAMBDA e : e.ok)

\* The text of a loaded input: the value of an InputRecord, or the value
\* itself in the runner that keeps plain values.
InputText(r) == IF program = "client" THEN r.value ELSE r

\* C1: in both batch loops a failure of one input (status error, network
\* error, parse error) neither leaves the loop nor keeps a later input from
\* being processed: the inputs are processed one by one in input order, the
\* loop is left only after the last input, and the collected records are
\* exactly the records of the inputs that succeeded, in input order.
C1_FailuresAreIsolated ==
    pc \in {"loop", "exit"} /\ exitReason \notin {"input file missing",
                                                  "no valid inputs",
                                                  "fatal error during scraping"}
    => /\ Len(log) = idx - 1
       /\ \A i \in 1..Len(log) : log[i].value = InputText(records[i])
       /\ pc = "exit" => Len(log) = Len(records)
       /\ results = [k \in 1..Len(Succeeded) |-> Succeeded[k].produced]

\* A 404 on the first input, then a success on the second, whose record is
\* the only one collected.
C1_Witness ==
    /\ Len(log) = 2
    /\ ~log[1].ok /\ log[1].status = 404
    /\ log[2].ok
    /\ results = <<log[2].produced>>

\* C2: the fetch step fails exactly when the response status is outside
\* 200..299: a 2xx response has its markup handed to extraction, any other
\* status fails the item with an error carrying that status.
C2_FetchFailsExactlyOnNon2xx ==
    \A i \in 1..Len(log) :
        log[i].response.kind = "status"
        => IF log[i].response.status \in 200..299
           THEN log[i].fetched
           ELSE /\ ~log[i].ok
                /\ log[i].error = "RuntimeError"
                /\ log[i].status = log[i].response.status

\* C3: classify_input raises exactly on text that is empty once trimmed;
\* otherwise the record keeps the raw text, its value is the trimmed text,
\* and its kind is url for a value that starts with http:// or https:// in
\* any letter case, else zpid for an all-digit value, else address.
Trimmed(text) ==
    LET inner == {i \in 1..Len(text) : text[i] \notin Whitespace}
    IN  IF inner = {} THEN <<>>
        ELSE SubSeq(text, CHOOSE i \in inner : \A j \in inner : i <= j,
                          CHOOSE i \in inner : \A j \in inner : i >= j)

HasScheme(text) ==
    \E scheme \in {HttpScheme, HttpsScheme} :
        /\ Len(text) >= Len(scheme)
        /\ \A i \in 1..Len(scheme) : LowerChar(text[i]) = scheme[i]

ExpectedKind(text) ==
    IF HasScheme(text) THEN "url"
    ELSE IF text # <<>> /\ \A i \in 1..Len(text) : text[i] \in DigitChars
         THEN "zpid"
         ELSE "address"

C3_ClassificationByRuleOrder ==
    ret # <<>>
    => /\ ret[1].raised <=> Trimmed(arg) = <<>>
       /\ ~ret[1].raised
          => /\ ret[1].record.raw = arg
             /\ ret[1].record.value = Trimmed(arg)
             /\ ret[1].record.kind = ExpectedKind(Trimmed(arg))

\* A padded text with an upper-case scheme was classified as a url.
C3_Witness ==
    /\ ret # <<>>
    /\ ~ret[1].raised
    /\ ret[1].record.kind = "url"
    /\ ret[1].record.value # arg
    /\ ~startswith(ret[1].record.value, HttpScheme)
    /\ ~startswith(ret[1].record.value, HttpsScheme)

\* C4: loading an input file yields one record per line that, once trimmed,
\* is neither empty nor starts with '#', in file order, each holding the
\* trimmed line, and nothing for the other lines; the file of the lines
\* '12 Ex St', '# c', a blank line and 'https://e/9' yields two records, of
\* kinds address then url.
IsInputLine(line) ==
    /\ Trimmed(line) # <<>>
    /\ Trimmed(line)[1] # "#"

InputLines(lines) == SelectSeq(lines, IsInputLine)

ScenarioFile == <<LineAddress, LineComment, LineBlank, LineUrl>>

C4_OneRecordPerInputLine ==
    pc # "start"
    => /\ Len(records) = Len(InputLines(file))
       /\ \A i \in 1..Len(records) :
            InputText(records[i]) = Trimmed(InputLines(file)[i])
       /\ program = "client"
          => \A i \in 1..Len(records) :
               records[i].kind = ExpectedKind(Trimmed(InputLines(file)[i]))
       /\ file = ScenarioFile /\ program = "client"
          => [i \in 1..Len(records) |-> records[i].kind] = <<"address", "url">>

\* The scenario file was loaded into its two records.
C4_Witness ==
    /\ program = "client"
    /\ pc # "start"
    /\ file = ScenarioFile
    /\ Len(records) = 2

\* C5: URL resolution is a function of the record and the base URL alone:
\* resolving the same record again gives the same URL and changes nothing
\* else; a url record resolves to its value, a zpid record to the base URL
\* followed by a path that embeds the identifier.
Contains(text, part) ==
    \E i \in 1..(Len(text) - Len(part) + 1) :
        SubSeq(text, i, i + Len(part) - 1) = part

C5_Resolved ==
    \A i \in 1..Len(ret) :
        /\ \A j \in 1..Len(ret) : ret[i] = ret[j]
        /\ arg.record.kind = "url" => ret[i] = arg.record.value
        /\ arg.record.kind = "zpid"
           => /\ startswith(ret[i], arg.base)
              /\ Contains(SubSeq(ret[i], Len(arg.base) + 1, Len(ret[i])),
                          arg.record.value)
              /\ Contains(ret[i], <<"/">> \o arg.record.value)

C6_NoWhitespaceInAddressUrl ==
    \A i \in 1..Len(ret) :
        arg.record.kind = "address"
        => \A k \in 1..Len(ret[i]) : ret[i][k] \notin Whitespace

\* C7: the decoded object structured-data extraction hands on is that of the
\* first script block with both markers that decodes.
Candidates(page) ==
    {i \in 1..Len(page.scripts) :
        /\ page.scripts[i].hasZestimate /\ page.scripts[i].hasZpid
        /\ json_loads_candidate(page.scripts[i].blocks).ok}

FirstDecoded(page) ==
    IF Candidates(page) = {} THEN JNull
    ELSE json_loads_candidate(
             page.scripts[CHOOSE i \in Candidates(page) :
                            \A j \in Candidates(page) : i <= j].blocks).data

\* C7 as stated: a record is produced by the heuristic extractor exactly
\* when structured-data extraction yields no property payload (no map with
\* both keys in the decoded object, or no decoded object).
C7_HeuristicIffNoPayload ==
    \A i \in 1..Len(log) :
        log[i].ok
        => (log[i].via = "html" <=> walk(FirstDecoded(log[i].response.page)) = JNull)

\* C7 amended: a record is produced by the heuristic extractor exactly when
\* structured-data extraction yields no decoded object or an empty one, and
\* then no payload exists; a decoded object without a payload is still
\* handled by structured field extraction.  A fetched item fails only inside
\* field extraction of a decoded object, never because a block fails to
\* decode.
C7_HeuristicIffNothingDecoded ==
    \A i \in 1..Len(log) :
        LET decoded == FirstDecoded(log[i].response.page)
        IN  /\ log[i].ok => (log[i].via = "html" <=> ~Truthy(decoded))
            /\ log[i].via = "html" => walk(decoded) = JNull
            /\ log[i].fetched /\ ~log[i].ok => Truthy(decoded)

\* A block decoded without a payload and the record came from the
\* structured path; before it, a block that failed to decode was recovered.
C7_Witness ==
    /\ Len(log) = 2
    /\ log[1].ok /\ log[1].response.page = PageSecondDecodes /\ log[1].via = "json"
    /\ log[2].ok /\ log[2].response.page = PageNoPayload /\ log[2].via = "json"

\* C8: in structured field extraction the first alternate key present with
\* a non-null value wins, so a zero under the first present key is output
\* as zero, and a numeric field is None only when no alternate key holds a
\* non-null value or its coercion fails.
RECURSIVE FirstNonNull(_, _)
FirstNonNull(m, ks) ==
    IF ks = <<>> THEN JNull
    ELSE IF get(m, Head(ks)) # JNull THEN get(m, Head(ks))
    ELSE FirstNonNull(m, Tail(ks))

Coerced(v) ==
    IF v.t = "num" THEN v
    ELSE IF v.t = "str" /\ isdigit(v.s) THEN JNum(DigitsValue(v.s))
    ELSE JNull

C8_FirstPresentKeyWins ==
    ret # <<>>
    => /\ ret[1].data.zestimate
            = Coerced(FirstNonNull(arg, <<"zestimate", "price">>))
       /\ ret[1].data.livingArea
            = Coerced(FirstNonNull(arg, <<"livingArea", "livingAreaValue">>))
       /\ ret[1].data.lotSize
            = Coerced(FirstNonNull(arg, <<"lotSize", "lotSizeValue">>))
       /\ ret[1].data.bedrooms = Coerced(FirstNonNull(arg, <<"bedrooms">>))

\* C9: the url of a collected record, as text.
UrlText(record) ==
    IF program = "client" THEN record.url
    ELSE IF record.url.t = "str" THEN record.url.s ELSE <<>>

\* C9 as stated: every collected record has a non-empty url, which is the
\* input URL (kind url) or the URL resolved and fetched for the input.
C9_UrlIsInputOrFetchedUrl ==
    \A k \in 1..Len(Succeeded) :
        /\ k <= Len(results)
        /\ UrlText(results[k]) # <<>>
        /\ UrlText(results[k]) = IF Succeeded[k].kind = "url"
                                 THEN Succeeded[k].value
                                 ELSE Succeeded[k].url

\* C9 amended: every collected record has a non-empty url.  On both
\* extraction paths the extracted record's url is the URL resolved and
\* fetched, which is the input URL for kind url; the normalized record's url
\* is that URL with its whitespace cleaned (each run of whitespace one
\* space), hence the same URL whenever it holds no whitespace run other
\* than single spaces.
Squeezed(text) == SelectSeq(text, LAMBDA c : c \notin Whitespace)

SingleSpaced(text) ==
    /\ \A i \in 1..Len(text) : text[i] \in Whitespace => text[i] = " "
    /\ \A i \in 1..(Len(text) - 1) : ~(text[i] = " " /\ text[i + 1] = " ")
    /\ text # <<>> => text[1] # " " /\ text[Len(text)] # " "

C9_UrlPopulated ==
    \A k \in 1..Len(Succeeded) :
        LET e == Succeeded[k]
            fetchedUrl == IF e.kind = "url" THEN e.value ELSE e.url
        IN  /\ k <= Len(results)
            /\ UrlText(results[k]) # <<>>
            /\ e.kind = "url" => e.url = e.value
            /\ program = "client" => UrlText(results[k]) = fetchedUrl
            /\ program = "parser"
               => /\ SingleSpaced(UrlText(results[k]))
                  /\ Squeezed(UrlText(results[k])) = Squeezed(fetchedUrl)
                  /\ Len(UrlText(results[k])) <= Len(fetchedUrl)
                  /\ SingleSpaced(fetchedUrl) => UrlText(results[k]) = fetchedUrl

\* A normalized record whose url is the input URL with its double space
\* made one space, after a record of the heuristic path for a zpid.
C9_Witness ==
    /\ program = "parser"
    /\ Len(Succeeded) = 2
    /\ Len(results) = 2
    /\ Succeeded[1].kind = "zpid" /\ Succeeded[1].via = "html"
    /\ UrlText(results[1]) = Succeeded[1].url
    /\ Succeeded[2].kind = "url" /\ Succeeded[2].via = "json"
    /\ UrlText(results[2]) # Succeeded[2].value

\* C10: a run ends with a nonzero status when the input file is missing or
\* holds no input line, and with status 0 when it holds one, whatever the
\* failures of its items, unless the export or the scraping session itself
\* fails.
C10_ExitStatus ==
    pc = "exit"
    => /\ ~inputExists \/ InputLines(file) = <<>> => exitCode # 0
       /\ /\ inputExists
          /\ InputLines(file) # <<>>
          /\ exitReason \notin {"export failed", "fatal error during scraping"}
          => exitCode = 0

\* C11: a run that has begun processing its inputs and ends otherwise than
\* by a failure of the export or of the scraping session has reported, when
\* it ends, the summary of the number of processed inputs and the number of
\* resolved ones, also when no input was resolved.
C11_SummaryAlwaysReported ==
    /\ pc = "exit"
    /\ requests # <<>>
    /\ exitReason \notin {"export failed", "fatal error during scraping"}
    => summary = <<Len(log), Len(results)>>

\* C17: in the loop of process_records at most one GET is awaited at any
\* time, the GETs sent are those of inputs 1, 2, ... in order and one per
\* input, whatever the outcome of a fetch, and the GET of an input is sent
\* only when every input before it has been processed to its end (collected
\* or logged as failed).
C17_Sequential ==
    program = "client"
    => /\ Cardinality(inflight) <= 1
       /\ requests = [k \in 1..Len(requests) |-> k]
       /\ Len(requests) <= Len(records)
       /\ inflight = IF pc = "fetch" THEN {Len(requests)} ELSE {}
       /\ Len(log) = Len(requests) - Cardinality(inflight)
       /\ idx = Len(log) + 1

C17_SentAfterProcessed ==
    program = "client" /\ requests' # requests
    => /\ inflight = {}
       /\ Len(log) = Len(requests)
       /\ requests' = Append(requests, Len(log) + 1)

C17_StrictlySequential ==
    /\ []C17_Sequential
    /\ [][C17_SentAfterProcessed]_vars

\* The GET of the second input is awaited after the first input failed with
\* a network error, which was not fetched again.
C17_Witness ==
    /\ program = "client"
    /\ requests = <<1, 2>>
    /\ inflight = {2}
    /\ Len(log) = 1
    /\ log[1].error = "NetworkError"

\* C12: normalize_property_record raises for no raw map; each of
\* livingArea, lotSize, yearBuilt and price is the integer read from the
\* value's digits and minus signs ("1,234" gives 1234), and None for None
\* and for a value that cannot be read; each float field is a number or
\* None; so the result of a field depends on that field's value alone.
SignedDigits(text) ==
    /\ text # <<>>
    /\ IF text[1] = "-"
       THEN Len(text) > 1 /\ \A i \in 2..Len(text) : text[i] \in DigitChars
       ELSE \A i \in 1..Len(text) : text[i] \in DigitChars

SignedValue(text) ==
    IF text[1] = "-" THEN 0 - DigitsValue(SubSeq(text, 2, Len(text)))
    ELSE DigitsValue(text)

ExpectedInt(v) ==
    IF v.t = "num" THEN v
    ELSE IF v.t = "str"
              /\ SignedDigits(SelectSeq(v.s, LAMBDA c : c \in DigitChars \cup {"-"}))
         THEN JNum(SignedValue(SelectSeq(v.s, LAMBDA c : c \in DigitChars \cup {"-"})))
         ELSE JNull

IntFields == {"livingArea", "lotSize", "yearBuilt", "price"}
FloatFields == {"zestimate", "rentZestimate", "bedrooms", "bathrooms"}

C12_NormalizeNeverRaises ==
    ret # <<>>
    => /\ ~ret[1].raised
       /\ \A f \in IntFields : ret[1].record[f] = ExpectedInt(get(arg, f))
       /\ \A f \in FloatFields : ret[1].record[f].t \in {"null", "num", "dec", "inf"}

\* json.load of the tokens of a written file: [value, rest], the value read
\* from the front of the tokens and the tokens after it.
literal_value(text) ==
    IF text = NullLiteral THEN JNull
    ELSE IF text = InfinityLiteral THEN JInf
    ELSE IF \E i \in 1..Len(text) : text[i] = "." THEN [t |-> "dec", s |-> text]
    ELSE JNum(SignedValue(text))

RECURSIVE json_load(_)
RECURSIVE json_load_items(_, _)
RECURSIVE json_load_members(_, _)
json_load(tokens) ==
    CASE Head(tokens).k = "lit" ->
           [value |-> literal_value(Head(tokens).s), rest |-> Tail(tokens)]
      [] Head(tokens).k = "str" ->
           [value |-> JStr(Head(tokens).s), rest |-> Tail(tokens)]
      [] Head(tokens).k = "[" -> json_load_items(Tail(tokens), <<>>)
      [] Head(tokens).k = "{" -> json_load_members(Tail(tokens), <<>>)

json_load_items(tokens, items) ==
    IF Head(tokens).k = "]" THEN [value |-> JList(items), rest |-> Tail(tokens)]
    ELSE LET item == json_load(tokens)
         IN  json_load_items(item.rest, Append(items, item.value))

json_load_members(tokens, kv) ==
    IF Head(tokens).k = "}" THEN [value |-> JMap(kv), rest |-> Tail(tokens)]
    ELSE LET member == json_load(Tail(tokens))
         IN  json_load_members(member.rest,
                               Append(kv, <<Head(tokens).s, member.value>>))

\* The maps read back from the JSON file of a run.
ReadBack == json_load(output).value.items

\* C13: the JSON file of a run that exported its records reads back as one
\* map per collected record, every map with the same key set: the expected
\* fields, null where nothing was found, and the provenance field, which
\* holds the cleaned text of the input the record came from.
ExpectedFields == {"address", "zpid", "url", "zestimate", "rentZestimate",
                   "bedrooms", "bathrooms", "livingArea", "lotSize", "homeType",
                   "yearBuilt", "price", "status"}

C13_FixedKeySetWithProvenance ==
    pc = "exit" /\ exitReason = "done"
    => /\ json_load(output).rest = <<>>
       /\ Len(ReadBack) = Len(results)
       /\ \A i \in 1..Len(ReadBack) :
            /\ ReadBack[i].t = "map"
            /\ keys(ReadBack[i]) = ExpectedFields \cup {"sourceInput"}
            /\ get(ReadBack[i], "sourceInput")
                 = JStr(clean_text(Succeeded[i].input))

\* C14: walk returns the first node, in the order node before children and
\* children in stored order, that is a map holding both the key zpid and
\* the key zestimate, and None when the tree has no such node; for the
\* object whose only such map is the second element of a list under the
\* root's key, the result is that map.
Children(node) ==
    IF node.t = "map" THEN [i \in 1..Len(node.kv) |-> node.kv[i][2]]
    ELSE IF node.t = "list" THEN node.items
    ELSE <<>>

RECURSIVE PreOrder(_)
RECURSIVE PreOrderAll(_)
PreOrder(node) == <<node>> \o PreOrderAll(Children(node))

PreOrderAll(nodes) ==
    IF nodes = <<>> THEN <<>>
    ELSE PreOrder(Head(nodes)) \o PreOrderAll(Tail(nodes))

Qualifies(node) ==
    /\ node.t = "map"
    /\ \E i \in 1..Len(node.kv) : node.kv[i][1] = "zpid"
    /\ \E i \in 1..Len(node.kv) : node.kv[i][1] = "zestimate"

FirstQualifying(nodes) ==
    IF \E i \in 1..Len(nodes) : Qualifies(nodes[i])
    THEN nodes[CHOOSE i \in 1..Len(nodes) :
                 /\ Qualifies(nodes[i])
                 /\ \A j \in 1..(i - 1) : ~Qualifies(nodes[j])]
    ELSE JNull

C14_WalkIsPreOrderFirstMatch ==
    ret # <<>>
    => /\ ret[1] = FirstQualifying(PreOrder(arg))
       /\ arg = DataNested => ret[1] = Payload

\* The payload at depth 3 inside a list was returned, and not the root, the
\* list or the map before it.
C14_Witness ==
    /\ ret # <<>>
    /\ arg = DataNested
    /\ ret[1] = Payload
    /\ ret[1] \notin {arg, arg.kv[1][2], arg.kv[1][2].items[1]}

\* C15: structured-data extraction returns the object decoded from the
\* first top-level brace-delimited substring of the first script block, in
\* document order, that holds both markers and whose first such substring
\* decodes; it returns None when there is no such block.
DecodesFirst(script) ==
    /\ script.hasZestimate /\ script.hasZpid
    /\ script.blocks # <<>>
    /\ script.blocks[1].decodes

C15_FirstSubstringOfFirstCandidate ==
    ret # <<>>
    => IF \E i \in 1..Len(arg) : DecodesFirst(arg[i])
       THEN ret[1] = arg[CHOOSE i \in 1..Len(arg) :
                           /\ DecodesFirst(arg[i])
                           /\ \A j \in 1..(i - 1) : ~DecodesFirst(arg[j])].blocks[1].data
       ELSE ret[1] = JNull

\* C16: structured field extraction raises for no payload; a numeric key
\* whose value cannot be converted (text that is no number, an infinite
\* value for an integer field) gives None for its field, and every other
\* field of the record is what extraction gives when that key holds null.
Malformed(v) ==
    \/ v.t = "inf"
    \/ v.t = "str" /\ ~SignedDigits(Trimmed(v.s))

WithNull(m, key) ==
    JMap([i \in 1..Len(m.kv) |->
            IF m.kv[i][1] = key THEN <<key, JNull>> ELSE m.kv[i]])

RecordFields == {"address", "zpid", "url", "zestimate", "bedrooms", "bathrooms",
                 "livingArea", "lotSize", "yearBuilt", "propertyType",
                 "priceHistory"}

C16_MalformedNumberIsIsolated ==
    ret # <<>>
    => /\ ~ret[1].raised
       /\ \A key \in {"zestimate", "livingArea"} :
            Malformed(get(arg, key))
            => /\ ret[1].data[key] = JNull
               /\ \A g \in RecordFields \ {key} :
                    ret[1].data[g]
                      = _parse_from_json_blob(WithNull(arg, key), ExtractRecord,
                                              ExtractUrl).data[g]

====
